---- MODULE Spec2Model ----
(***************************************************************************)
(* Image extraction and canonicalisation of pkg/engine/context/imageutils. *)
(*                                                                         *)
(* Text is modelled as a sequence of chunks.  A chunk is a piece of text   *)
(* that is either one punctuation character ("/", ":", ".", "_", "@",      *)
(* ";"), a run of letters or digits ("a", "A", "5", "localhost", "docker", *)
(* "io", "latest", field names, ...) or one whole digest                   *)
(* ("sha256:" followed by 64 hex digits).  Two texts are equal iff their   *)
(* chunk sequences are equal, because no chunk is a concatenation of       *)
(* others.                                                                 *)
(***************************************************************************)
EXTENDS Integers, Sequences, FiniteSets, TLC

VARIABLES pc, resource, extracted, images, patches, ctxResource, mutateErr,
          image, defaulted, info, rendered, reparsed

vars == <<pc, resource, extracted, images, patches, ctxResource, mutateErr,
          image, defaulted, info, rendered, reparsed>>

-----------------------------------------------------------------------------
(* Bounds *)

\* longest leading segment of the image references that are parsed
MaxLead == 5

\* most containers a manifest holds, over its three lists
MaxContainers == 2

-----------------------------------------------------------------------------
(* Text helpers (Go strings package) *)

DigestText == "sha256:0000000000000000000000000000000000000000000000000000000000000000"

DefaultDomain == <<"docker", ".", "io">>

\* punctuation characters occurring in a chunk
CharsOf(c) == IF c = DigestText THEN {":"} ELSE {c}

LowerRuns == {"a", "5", "localhost", "docker", "io", "latest"}

UpperRuns == {"A"}

Digits == {"5"}

\* strings.ToLower on one chunk
LowerChunk(c) == IF c = "A" THEN "a" ELSE c

ToLower(s) == [j \in DOMAIN s |-> LowerChunk(s[j])]

\* strings.IndexRune / strings.Index: 0-based index of the first c, or -1
IndexRune(s, c) ==
    IF \E j \in DOMAIN s : s[j] = c
    THEN (CHOOSE j \in DOMAIN s : s[j] = c /\ \A k \in 1..(j-1) : s[k] # c) - 1
    ELSE -1

\* strings.LastIndex: 0-based index of the last c, or -1
LastIndex(s, c) ==
    IF \E j \in DOMAIN s : s[j] = c
    THEN (CHOOSE j \in DOMAIN s : s[j] = c /\ \A k \in (j+1)..Len(s) : s[k] # c) - 1
    ELSE -1

\* strings.ContainsAny
ContainsAny(s, chars) == \E j \in DOMAIN s : CharsOf(s[j]) \cap chars # {}

\* Go slice expressions s[:i] and s[i:]
SliceTo(s, i) == SubSeq(s, 1, i)

SliceFrom(s, i) == SubSeq(s, i + 1, Len(s))

RECURSIVE Join(_, _)
\* strings.Join
Join(parts, sep) ==
    IF Len(parts) = 0 THEN <<>>
    ELSE IF Len(parts) = 1 THEN parts[1]
    ELSE parts[1] \o sep \o Join(Tail(parts), sep)

-----------------------------------------------------------------------------
(* addDefaultDomain *)

\* variant: a leading segment is taken for a path whatever its case
addDefaultDomainAnyCase(name) ==
    LET i == IndexRune(name, "/") IN
    IF i = -1 \/ ( /\ ~ContainsAny(SliceTo(name, i), {".", ":"})
                   /\ SliceTo(name, i) # <<"localhost">> )
    THEN DefaultDomain \o <<"/">> \o name
    ELSE name

addDefaultDomain(name) ==
    LET i == IndexRune(name, "/") IN
    IF i = -1 \/ ( /\ ~ContainsAny(SliceTo(name, i), {".", ":"})
                   /\ SliceTo(name, i) # <<"localhost">>
                   /\ ToLower(SliceTo(name, i)) = SliceTo(name, i) )
    THEN DefaultDomain \o <<"/">> \o name
    ELSE name

-----------------------------------------------------------------------------
(* reference.Parse of github.com/distribution/distribution/reference, as   *)
(* called by newImageInfo.  The regular expressions are run as automata    *)
(* over the chunks.                                                        *)

RECURSIVE NameComponentRun(_, _, _)
\* nameComponentRegexp: [a-z0-9]+ ((?:[._]|__|[-]*) [a-z0-9]+)*
\* state: "need" (an alphanumeric must follow), "in" (accepting),
\*        "us" (after one underscore), "hy" (after hyphens)
NameComponentRun(s, j, st) ==
    IF j > Len(s) THEN st = "in"
    ELSE LET c == s[j] IN
         IF c \in LowerRuns THEN NameComponentRun(s, j + 1, "in")
         ELSE IF st = "in" /\ c = "." THEN NameComponentRun(s, j + 1, "need")
         ELSE IF st = "in" /\ c = "_" THEN NameComponentRun(s, j + 1, "us")
         ELSE IF st = "us" /\ c = "_" THEN NameComponentRun(s, j + 1, "need")
         ELSE IF st \in {"in", "hy"} /\ c = "-" THEN NameComponentRun(s, j + 1, "hy")
         ELSE FALSE

IsNameComponent(s) == NameComponentRun(s, 1, "need")

RECURSIVE DomainRun(_, _, _)
\* DomainRegexp: domainComponent (\. domainComponent)* (: [0-9]+)?
\* domainComponent: [a-zA-Z0-9] | [a-zA-Z0-9][a-zA-Z0-9-]*[a-zA-Z0-9]
\* state: "need", "in" (accepting), "hy", "port0", "port" (accepting)
DomainRun(s, j, st) ==
    IF j > Len(s) THEN st \in {"in", "port"}
    ELSE LET c == s[j] IN
         IF st \in {"need", "in", "hy"} /\ c \in LowerRuns \cup UpperRuns
         THEN DomainRun(s, j + 1, "in")
         ELSE IF st \in {"in", "hy"} /\ c = "-" THEN DomainRun(s, j + 1, "hy")
         ELSE IF st = "in" /\ c = "." THEN DomainRun(s, j + 1, "need")
         ELSE IF st = "in" /\ c = ":" THEN DomainRun(s, j + 1, "port0")
         ELSE IF st \in {"port0", "port"} /\ c \in Digits THEN DomainRun(s, j + 1, "port")
         ELSE FALSE

IsDomain(s) == DomainRun(s, 1, "need")

\* TagRegexp: [\w][\w.-]{0,127}
IsTag(s) ==
    /\ Len(s) >= 1
    /\ s[1] \in LowerRuns \cup UpperRuns \cup {"_"}
    /\ \A j \in DOMAIN s : s[j] \in LowerRuns \cup UpperRuns \cup {"_", ".", "-"}

\* DigestRegexp followed by digest.Parse: algorithm ":" hex of the
\* algorithm's length; the digest chunk is the only text of that form
IsDigest(s) == s = <<DigestText>>

RECURSIVE IsPath(_)
\* nameComponent ("/" nameComponent)*
IsPath(s) ==
    LET i == IndexRune(s, "/") IN
    IF i = -1 THEN IsNameComponent(s)
    ELSE IsNameComponent(SliceTo(s, i)) /\ IsPath(SliceFrom(s, i + 1))

\* anchoredNameRegexp: ^(?:(domain)/)?(path)$ ; the optional group is
\* greedy, so a leading segment that can be the domain is the domain
NameMatch(s) ==
    LET i == IndexRune(s, "/") IN
    IF i # -1 /\ IsDomain(SliceTo(s, i)) /\ IsPath(SliceFrom(s, i + 1))
    THEN [ok |-> TRUE, domain |-> SliceTo(s, i), path |-> SliceFrom(s, i + 1)]
    ELSE IF IsPath(s)
    THEN [ok |-> TRUE, domain |-> <<>>, path |-> s]
    ELSE [ok |-> FALSE, domain |-> <<>>, path |-> <<>>]

\* ReferenceRegexp: ^(name)(?::(tag))?(?:@(digest))?$
\* A ":" of the name is always followed by a "/" (it is the port of the
\* domain), a tag holds neither "/" nor ":", so the captures are unique.
ReferenceMatch(s) ==
    LET at      == IndexRune(s, "@")
        beforeAt == IF at = -1 THEN s ELSE SliceTo(s, at)
        digest  == IF at = -1 THEN <<>> ELSE SliceFrom(s, at + 1)
        slash   == LastIndex(beforeAt, "/")
        colon   == LastIndex(beforeAt, ":")
        hasTag  == colon # -1 /\ colon > slash
        name    == IF hasTag THEN SliceTo(beforeAt, colon) ELSE beforeAt
        tag     == IF hasTag THEN SliceFrom(beforeAt, colon + 1) ELSE <<>>
    IN  IF /\ (at = -1 \/ IsDigest(digest))
           /\ (~hasTag \/ IsTag(tag))
           /\ NameMatch(name).ok
        THEN [ok |-> TRUE, name |-> name, tag |-> tag, digest |-> digest]
        ELSE [ok |-> FALSE, name |-> <<>>, tag |-> <<>>, digest |-> <<>>]

ErrNameEmpty == <<"repository name must have at least one component">>

ErrNameContainsUppercase == <<"repository name must be lowercase">>

ErrReferenceInvalidFormat == <<"invalid reference format">>

\* reference.Parse: the reference (domain, path, tag, digest) or an error
Parse(s) ==
    LET Reference(m, nameMatch) ==
            IF ~m.ok
            THEN [ok |-> FALSE, domain |-> <<>>, path |-> <<>>, tag |-> <<>>,
                  digest |-> <<>>,
                  err |-> IF s = <<>> THEN ErrNameEmpty
                          ELSE IF ReferenceMatch(ToLower(s)).ok
                          THEN ErrNameContainsUppercase
                          ELSE ErrReferenceInvalidFormat]
            ELSE [ok |-> TRUE, domain |-> nameMatch.domain, path |-> nameMatch.path,
                  tag |-> m.tag, digest |-> m.digest, err |-> <<>>]
        Matched(m) == Reference(m, NameMatch(m.name))
    IN  Matched(ReferenceMatch(s))

-----------------------------------------------------------------------------
(* ImageInfo *)

NoImageInfo ==
    [Registry |-> <<>>, Name |-> <<>>, Path |-> <<>>, Tag |-> <<>>, Digest |-> <<>>,
     JSONPointer |-> <<>>]

\* (*ImageInfo).String
String(i) ==
    IF i.Digest # <<>>
    THEN i.Registry \o <<"/">> \o i.Path \o <<"@">> \o i.Digest
    ELSE i.Registry \o <<"/">> \o i.Path \o <<":">> \o i.Tag

\* newImageInfo: (ImageInfo, nil) or (nil, "bad image: <image>: <cause>")
newImageInfo(img, jsonPointer) ==
    LET Info(full, ref) ==
            IF ~ref.ok
            THEN [ok |-> FALSE, info |-> NoImageInfo,
                  err |-> <<"bad image: ">> \o full \o <<": ">> \o ref.err]
            ELSE [ok |-> TRUE,
                  info |-> [Registry    |-> ref.domain,
                            Name        |-> SliceFrom(ref.path,
                                                      LastIndex(ref.path, "/") + 1),
                            Path        |-> ref.path,
                            Tag         |-> IF ref.digest = <<>> /\ ref.tag = <<>>
                                            THEN <<"latest">> ELSE ref.tag,
                            Digest      |-> ref.digest,
                            JSONPointer |-> jsonPointer],
                  err |-> <<>>]
        Parsed(full) == Info(full, Parse(full))
    IN  Parsed(addDefaultDomain(img))

-----------------------------------------------------------------------------
(* Documents: the untyped tree of unstructured.Unstructured.  A value is a *)
(* string, an array or a mapping from field names to values.               *)

Str(s) == [t |-> "str", v |-> s]

Arr(elems) == [t |-> "arr", v |-> elems]

Map(fields) == [t |-> "map", v |-> fields]

EmptyFields == [f \in {} |-> Str(<<>>)]

\* (*Unstructured).GetKind: the string at "kind", "" when there is none
GetKind(res) ==
    IF "kind" \in DOMAIN res.v /\ res.v["kind"].t = "str" /\ Len(res.v["kind"].v) = 1
    THEN res.v["kind"].v[1]
    ELSE ""

RECURSIVE NestedFieldNoCopy(_, _)
\* unstructured.NestedFieldNoCopy: walk the mappings along the fields
NestedFieldNoCopy(val, fields) ==
    IF Len(fields) = 0 THEN [found |-> TRUE, val |-> val]
    ELSE IF val.t = "map" /\ fields[1] \in DOMAIN val.v
    THEN NestedFieldNoCopy(val.v[fields[1]], Tail(fields))
    ELSE [found |-> FALSE, val |-> Str(<<>>)]

\* unstructured.NestedSlice: the array at the fields, ok only if it is one
NestedSlice(res, fields) ==
    LET r == NestedFieldNoCopy(res, fields) IN
    IF r.found /\ r.val.t = "arr"
    THEN [ok |-> TRUE, slice |-> r.val.v]
    ELSE [ok |-> FALSE, slice |-> <<>>]

DigitText == <<"0", "1", "2", "3", "4", "5", "6", "7", "8", "9">>

RECURSIVE Itoa(_)
\* strconv.Itoa for a non-negative index
Itoa(n) ==
    IF n < 10 THEN <<DigitText[n + 1]>>
    ELSE Itoa(n \div 10) \o <<DigitText[(n % 10) + 1]>>

-----------------------------------------------------------------------------
(* Extraction *)

NilError == [nil |-> TRUE, msg |-> <<>>]

Errorf(msg) == [nil |-> FALSE, msg |-> msg]

RECURSIVE convertLoop(_, _, _, _, _, _)
\* the loop of convertToImageInfo from element k on
convertLoop(containers, jsonPath, k, index, imgs, errs) ==
    IF k > Len(containers)
    THEN [panicked |-> FALSE, images |-> imgs,
          err |-> IF Len(errs) = 0 THEN NilError ELSE Errorf(Join(errs, <<";">>))]
    ELSE LET ctr == containers[k] IN
         IF ctr.t # "map"
         THEN convertLoop(containers, jsonPath, k + 1, index + 1, imgs, errs)
         ELSE IF ~("name" \in DOMAIN ctr.v /\ ctr.v["name"].t = "str")
         THEN [panicked |-> TRUE, images |-> <<>>, err |-> NilError]
         ELSE IF "image" \in DOMAIN ctr.v /\ ctr.v["image"].t # "str"
         THEN [panicked |-> TRUE, images |-> <<>>, err |-> NilError]
         ELSE LET name == ctr.v["name"].v
                  img  == IF "image" \in DOMAIN ctr.v THEN ctr.v["image"].v ELSE <<>>
                  jp   == Join(<<jsonPath, Itoa(index), <<"image">>>>, <<"/">>)
                  Collect(r) ==
                      IF ~r.ok
                      THEN convertLoop(containers, jsonPath, k + 1, index, imgs,
                                       Append(errs, r.err))
                      ELSE convertLoop(containers, jsonPath, k + 1, index + 1,
                                       Append(imgs, [ImageInfo |-> r.info, Name |-> name]),
                                       errs)
              IN  Collect(newImageInfo(img, jp))

\* variant: no images are returned when an element failed
convertToImageInfoAllOrNone(containers, jsonPath) ==
    LET r == convertLoop(containers, jsonPath, 1, 0, <<>>, <<>>) IN
    IF r.err.nil THEN r ELSE [r EXCEPT !.images = <<>>]

HasImageField(ctr) == ctr.t # "map" \/ "image" \in DOMAIN ctr.v

\* variant: a container without image field is passed over
convertToImageInfoSkipsNoImage(containers, jsonPath) ==
    convertLoop(SelectSeq(containers, HasImageField), jsonPath, 1, 0, <<>>, <<>>)

\* convertToImageInfo: (images, err), or a panic on a container without a
\* string name
convertToImageInfo(containers, jsonPath) ==
    convertLoop(containers, jsonPath, 1, 0, <<>>, <<>>)

\* extractImageInfos: the images; the error is only logged
extractImageInfos(containers, jsonPath) == convertToImageInfo(containers, jsonPath)

NotResolved == [resolved |-> FALSE, panicked |-> FALSE, images |-> <<>>, err |-> NilError]

\* imageExtractor.extract
extract(fields, tag, res) ==
    LET Images(f, ns) ==
            IF ns.ok
            THEN [resolved |-> TRUE]
                 @@ extractImageInfos(ns.slice,
                                      <<"/">> \o Join([j \in DOMAIN f |-> <<f[j]>>], <<"/">>))
            ELSE NotResolved
        Resolve(f) == Images(f, NestedSlice(res, f))
    IN  Resolve(Append(fields, tag))

RecognizedKinds == {"Pod", "CronJob", "Deployment", "DaemonSet", "Job", "StatefulSet"}

\* the extractors table; the zero imageExtractor for every other kind
extractors(k) ==
    IF k = "Pod" THEN <<"spec">>
    ELSE IF k = "CronJob" THEN <<"spec", "jobTemplate", "spec", "template", "spec">>
    ELSE IF k \in {"Deployment", "DaemonSet", "Job", "StatefulSet"}
    THEN <<"spec", "template", "spec">>
    ELSE <<>>

ListNames == <<"initContainers", "containers", "ephemeralContainers">>

\* extractImageInfo: the three extractions in order; a panic of one ends
\* the call
extractImageInfo(res) ==
    LET Returned(ini, ctr, eph) ==
            [panicked            |-> ini.panicked \/ ctr.panicked \/ eph.panicked,
             initContainers      |-> ini,
             containers          |-> IF ini.panicked THEN NotResolved ELSE ctr,
             ephemeralContainers |-> IF ini.panicked \/ ctr.panicked
                                     THEN NotResolved ELSE eph]
        Extract(extractor) ==
            Returned(extract(extractor, "initContainers", res),
                     extract(extractor, "containers", res),
                     extract(extractor, "ephemeralContainers", res))
    IN  Extract(extractors(GetKind(res)))

RECURSIVE imagesByName(_)
\* the loops of newImages: a later container replaces an earlier one of
\* the same name
imagesByName(imgs) ==
    IF Len(imgs) = 0 THEN [n \in {} |-> NoImageInfo]
    ELSE LET last == imgs[Len(imgs)]
             rest == imagesByName(SubSeq(imgs, 1, Len(imgs) - 1))
         IN  [n \in DOMAIN rest \cup {last.Name} |->
                 IF n = last.Name THEN last.ImageInfo ELSE rest[n]]

newImages(initContainersImgs, containersImgs, ephemeralContainersImgs) ==
    [nil                 |-> FALSE,
     InitContainers      |-> imagesByName(initContainersImgs),
     Containers          |-> imagesByName(containersImgs),
     EphemeralContainers |-> imagesByName(ephemeralContainersImgs)]

NilImages ==
    [nil                 |-> TRUE,
     InitContainers      |-> [n \in {} |-> NoImageInfo],
     Containers          |-> [n \in {} |-> NoImageInfo],
     EphemeralContainers |-> [n \in {} |-> NoImageInfo]]

-----------------------------------------------------------------------------
(* Mutation *)

PatchOpen == "{ \"op\": \""

PatchPath == "\", \"path\": \""

PatchValue == "\", \"value\":\""

PatchClose == "\" }"

\* buildJSONPatch: fmt.Sprintf(`{ "op": "%s", "path": "%s", "value":"%s" }`, ...)
buildJSONPatch(op, path, value) ==
    <<PatchOpen>> \o op \o <<PatchPath>> \o path \o <<PatchValue>> \o value \o <<PatchClose>>

\* the patches of one mapping of the inventory, in the order the range
\* over the Go map yields its keys
patchesOf(infos, order) ==
    [j \in DOMAIN order |->
        buildJSONPatch(<<"replace">>, infos[order[j]].JSONPointer, String(infos[order[j]]))]

\* the orders in which a range over a Go map may yield its keys
KeyOrders(infos) ==
    {o \in [1..Cardinality(DOMAIN infos) -> DOMAIN infos] :
        \A j, k \in DOMAIN o : j # k => o[j] # o[k]}

\* the decoded operation of a patch text
DecodePatch(p) ==
    LET ip == IndexRune(p, PatchPath)
        iv == IndexRune(p, PatchValue)
    IN  IF Len(p) >= 4 /\ p[1] = PatchOpen /\ p[Len(p)] = PatchClose /\ ip # -1 /\ iv > ip
        THEN [ok |-> TRUE, op |-> SubSeq(p, 2, ip), path |-> SubSeq(p, ip + 2, iv),
              value |-> SubSeq(p, iv + 2, Len(p) - 1)]
        ELSE [ok |-> FALSE, op |-> <<>>, path |-> <<>>, value |-> <<>>]

RECURSIVE Split(_, _)
\* strings.Split on one separator character
Split(s, sep) ==
    LET i == IndexRune(s, sep) IN
    IF i = -1 THEN <<s>>
    ELSE <<SliceTo(s, i)>> \o Split(SliceFrom(s, i + 1), sep)

RECURSIVE Atoi(_)
\* the array index a pointer token denotes, -1 if it is not a number
Atoi(tok) ==
    IF Len(tok) = 0 \/ ~(\E d \in DOMAIN DigitText : DigitText[d] = tok[Len(tok)]) THEN -1
    ELSE LET d == (CHOOSE x \in DOMAIN DigitText : DigitText[x] = tok[Len(tok)]) - 1 IN
         IF Len(tok) = 1 THEN d
         ELSE LET hi == Atoi(SubSeq(tok, 1, Len(tok) - 1)) IN
              IF hi = -1 THEN -1 ELSE hi * 10 + d

RECURSIVE ReplaceAt(_, _, _)
\* the "replace" operation: the document with the value at the tokens
\* replaced; fails when the location does not exist
ReplaceAt(doc, toks, value) ==
    IF Len(toks) = 0 THEN [ok |-> TRUE, doc |-> value]
    ELSE IF doc.t = "map" /\ Len(toks[1]) = 1 /\ toks[1][1] \in DOMAIN doc.v
    THEN LET r == ReplaceAt(doc.v[toks[1][1]], Tail(toks), value) IN
         [ok |-> r.ok,
          doc |-> Map([f \in DOMAIN doc.v |-> IF f = toks[1][1] THEN r.doc ELSE doc.v[f]])]
    ELSE IF doc.t = "arr" /\ Atoi(toks[1]) >= 0 /\ Atoi(toks[1]) < Len(doc.v)
    THEN LET r == ReplaceAt(doc.v[Atoi(toks[1]) + 1], Tail(toks), value) IN
         [ok |-> r.ok,
          doc |-> Arr([j \in DOMAIN doc.v |-> IF j = Atoi(toks[1]) + 1 THEN r.doc ELSE doc.v[j]])]
    ELSE [ok |-> FALSE, doc |-> doc]

\* one operation applied to a document
ApplyPatch(doc, p) ==
    LET d    == DecodePatch(p)
        toks == Split(d.path, "/")
    IN  IF d.ok /\ d.op = <<"replace">> /\ Len(toks) >= 2 /\ toks[1] = <<>>
        THEN ReplaceAt(doc, Tail(toks), Str(d.value))
        ELSE [ok |-> FALSE, doc |-> doc]

PatchError == Errorf(<<"failed to apply patches">>)

RECURSIVE applyLoop(_, _)
applyLoop(doc, ps) ==
    IF Len(ps) = 0 THEN [ok |-> TRUE, doc |-> doc]
    ELSE LET r == ApplyPatch(doc, ps[1]) IN
         IF r.ok THEN applyLoop(r.doc, Tail(ps)) ELSE [ok |-> FALSE, doc |-> doc]

\* engineutils.ApplyPatches: all the operations applied in order, or the
\* original document and an error
ApplyPatches(raw, ps) ==
    LET r == applyLoop(raw, ps) IN
    IF r.ok THEN [err |-> NilError, doc |-> r.doc] ELSE [err |-> PatchError, doc |-> raw]

\* AddResource: the document becomes the resource of the context
AddResource(ctxRes, doc) == [err |-> NilError, resource |-> doc]

\* variant: the init containers are left out of the operations
MutateResourceWithoutInitContainers(raw, imgs, ctxRes, oc, oi, oe) ==
    IF imgs.nil
    THEN [err |-> NilError, patches |-> <<>>, resource |-> ctxRes]
    ELSE LET ps == patchesOf(imgs.Containers, oc) \o patchesOf(imgs.EphemeralContainers, oe)
             patched == ApplyPatches(raw, ps)
         IN  IF ~patched.err.nil
             THEN [err |-> patched.err, patches |-> ps, resource |-> ctxRes]
             ELSE [err |-> AddResource(ctxRes, patched.doc).err, patches |-> ps,
                   resource |-> AddResource(ctxRes, patched.doc).resource]

\* variant: the error of ApplyPatches is not looked at
MutateResourceIgnoringPatchError(raw, imgs, ctxRes, oc, oi, oe) ==
    IF imgs.nil
    THEN [err |-> NilError, patches |-> <<>>, resource |-> ctxRes]
    ELSE LET ps == patchesOf(imgs.Containers, oc) \o patchesOf(imgs.InitContainers, oi)
                   \o patchesOf(imgs.EphemeralContainers, oe)
             patched == ApplyPatches(raw, ps)
         IN  [err |-> AddResource(ctxRes, patched.doc).err, patches |-> ps,
              resource |-> AddResource(ctxRes, patched.doc).resource]

\* MutateResourceWithImageInfo: the error returned, the patches built and
\* the resource the context holds afterwards
MutateResourceWithImageInfo(raw, imgs, ctxRes, oc, oi, oe) ==
    IF imgs.nil
    THEN [err |-> NilError, patches |-> <<>>, resource |-> ctxRes]
    ELSE LET ps == patchesOf(imgs.Containers, oc) \o patchesOf(imgs.InitContainers, oi)
                   \o patchesOf(imgs.EphemeralContainers, oe)
             patched == ApplyPatches(raw, ps)
         IN  IF ~patched.err.nil
             THEN [err |-> patched.err, patches |-> ps, resource |-> ctxRes]
             ELSE [err |-> AddResource(ctxRes, patched.doc).err, patches |-> ps,
                   resource |-> AddResource(ctxRes, patched.doc).resource]

-----------------------------------------------------------------------------
(* Manifests *)

Kinds == {"Pod", "Deployment", "CronJob", "ConfigMap"}

Names == {<<"n1">>, <<"n2">>}

\* images that parse (by tag, by digest), one that does not, the empty one
ImageTexts == {<<"a">>, <<"a", "@", DigestText>>, <<"A">>, <<>>}

Container(name, img) == Map(("name" :> Str(name)) @@ ("image" :> Str(img)))

ContainerNoImage(name) == Map("name" :> Str(name))

ContainerNoName == Map("image" :> Str(<<"a">>))

Elements ==
    {Container(n, i) : n \in Names, i \in {<<"a">>, <<"a", "@", DigestText>>}}
    \cup {Container(<<"n1">>, i) : i \in ImageTexts}
    \cup {ContainerNoImage(<<"n1">>), ContainerNoName, Str(<<"x">>)}

\* the pod specification: a list that has no element is absent
PodSpec(ini, ctr, eph) ==
    LET present == {j \in 1..3 : Len(<<ini, ctr, eph>>[j]) > 0} IN
    [f \in {ListNames[j] : j \in present} |->
        IF f = "initContainers" THEN Arr(ini)
        ELSE IF f = "containers" THEN Arr(ctr) ELSE Arr(eph)]

RECURSIVE Wrap(_, _)
Wrap(prefix, fields) ==
    IF Len(prefix) = 0 THEN fields
    ELSE prefix[1] :> Map(Wrap(Tail(prefix), fields))

Manifest(k, prefix, ini, ctr, eph) ==
    Map(("kind" :> Str(<<k>>)) @@ Wrap(prefix, PodSpec(ini, ctr, eph)))

Prefixes(k) == {<<>>, extractors(k)}

NoExtraction ==
    [panicked |-> FALSE, initContainers |-> NotResolved, containers |-> NotResolved,
     ephemeralContainers |-> NotResolved]

NoResult == [ok |-> FALSE, info |-> NoImageInfo, err |-> <<>>]

-----------------------------------------------------------------------------
(* The admission of one manifest: the context takes the image inventory of *)
(* the resource, then the resource is mutated.                             *)

Init ==
    \E k \in Kinds : \E p \in Prefixes(k) : \E n \in 0..MaxContainers :
    \E e \in [1..n -> Elements] : \E i \in 0..n : \E j \in i..n :
        /\ resource = Manifest(k, p, SubSeq(e, 1, i), SubSeq(e, i + 1, j), SubSeq(e, j + 1, n))
        /\ ctxResource = resource
        /\ pc = "start"
        /\ extracted = NoExtraction
        /\ images = NilImages
        /\ patches = <<>>
        /\ mutateErr = NilError
        /\ image = <<>>
        /\ defaulted = <<>>
        /\ info = NoResult
        /\ rendered = <<>>
        /\ reparsed = NoResult

\* the context's AddImageInfos: no inventory when nothing was extracted
AddImageInfos ==
    /\ pc = "start"
    /\ \E e \in {extractImageInfo(resource)} :
       /\ extracted' = e
       /\ IF e.panicked
          THEN pc' = "panicked" /\ images' = images
          ELSE /\ pc' = "extracted"
               /\ images' =
                    IF /\ Len(e.initContainers.images) = 0
                       /\ Len(e.containers.images) = 0
                       /\ Len(e.ephemeralContainers.images) = 0
                    THEN NilImages
                    ELSE newImages(e.initContainers.images, e.containers.images,
                                   e.ephemeralContainers.images)
    /\ UNCHANGED <<resource, patches, ctxResource, mutateErr, image, defaulted, info,
                   rendered, reparsed>>

MutateResource ==
    /\ pc = "extracted"
    /\ \E oc \in KeyOrders(images.Containers) :
       \E oi \in KeyOrders(images.InitContainers) :
       \E oe \in KeyOrders(images.EphemeralContainers) :
       \E r \in {MutateResourceWithImageInfo(resource, images, ctxResource, oc, oi, oe)} :
          /\ patches' = r.patches
          /\ ctxResource' = r.resource
          /\ mutateErr' = r.err
    /\ pc' = "mutated"
    /\ UNCHANGED <<resource, extracted, images, image, defaulted, info, rendered, reparsed>>

Next == AddImageInfos \/ MutateResource

Spec == Init /\ [][Next]_vars

-----------------------------------------------------------------------------
(* Parsing one image reference and parsing its canonical string again      *)

LeadChunks == {"5", "A", ".", "_", ":"}

Leads == UNION {[1..n -> LeadChunks] : n \in 0..MaxLead} \cup {<<"localhost">>}

Rests == {<<>>, <<"/", "a">>, <<"/", "a", "/", "a">>}

Suffixes == {<<>>, <<":", "a">>, <<"@", DigestText>>, <<":", "a", "@", DigestText>>}

RefPointer == <<"/", "spec", "/", "containers", "/", "0", "/", "image">>

InitParse ==
    \E lead \in Leads : \E rest \in Rests : \E suffix \in Suffixes :
        /\ image = lead \o rest \o suffix
        /\ pc = "ref"
        /\ defaulted = <<>>
        /\ info = NoResult
        /\ rendered = <<>>
        /\ reparsed = NoResult
        /\ resource = Map(EmptyFields)
        /\ ctxResource = Map(EmptyFields)
        /\ extracted = NoExtraction
        /\ images = NilImages
        /\ patches = <<>>
        /\ mutateErr = NilError

ParseImage ==
    /\ pc = "ref"
    /\ defaulted' = addDefaultDomain(image)
    /\ info' = newImageInfo(image, RefPointer)
    /\ pc' = "parsed"
    /\ UNCHANGED <<resource, extracted, images, patches, ctxResource, mutateErr, image,
                   rendered, reparsed>>

Canonicalize ==
    /\ pc = "parsed"
    /\ info.ok
    /\ rendered' = String(info.info)
    /\ reparsed' = newImageInfo(String(info.info), info.info.JSONPointer)
    /\ pc' = "reparsed"
    /\ UNCHANGED <<resource, extracted, images, patches, ctxResource, mutateErr, image,
                   defaulted, info>>

NextParse == ParseImage \/ Canonicalize

SpecParse == InitParse /\ [][NextParse]_vars

-----------------------------------------------------------------------------
(* Properties of the extraction *)

Extracted == pc \in {"extracted", "mutated"}

\* the container list of the resource that extraction resolves for a name
ListOf(listName) == NestedSlice(resource, Append(extractors(GetKind(resource)), listName))

\* the image text of a container: "" when it has no image field
ImageTextOf(elem) == IF "image" \in DOMAIN elem.v THEN elem.v["image"].v ELSE <<>>

\* the element is a container whose image parses
ParsesAt(slice, k) == slice[k].t = "map" /\ newImageInfo(ImageTextOf(slice[k]), <<>>).ok

\* the element is a container whose image does not parse
FailsAt(slice, k) == slice[k].t = "map" /\ ~newImageInfo(ImageTextOf(slice[k]), <<>>).ok

\* the position (from 1) of the j-th element of the list that satisfies T
NthPosition(slice, j, T(_, _)) ==
    CHOOSE k \in DOMAIN slice :
        T(slice, k) /\ Cardinality({m \in 1..k : T(slice, m)}) = j

CountOf(slice, T(_, _)) == Cardinality({k \in DOMAIN slice : T(slice, k)})

\* the location of the image field of element idx (from 0) of a list
LocationOf(listName, idx) ==
    <<"/">> \o Join([j \in DOMAIN extractors(GetKind(resource)) |->
                        <<extractors(GetKind(resource))[j]>>]
                    \o <<<<listName>>, Itoa(idx), <<"image">>>>, <<"/">>)

\* an image reference without its location
Fields(i) ==
    [Registry |-> i.Registry, Name |-> i.Name, Path |-> i.Path, Tag |-> i.Tag,
     Digest |-> i.Digest]

\* C1: every image reference extracted from a resolved container list
\* carries the location of the image field of the element it was parsed
\* from, at that element's own position in the list, also after elements
\* that failed to parse or were not mappings.
C1_LocationIsOwnPosition ==
    Extracted =>
        \A l \in DOMAIN ListNames :
            LET r == extracted[ListNames[l]]
                slice == ListOf(ListNames[l]).slice
            IN  r.resolved =>
                    \A j \in DOMAIN r.images :
                        j <= CountOf(slice, ParsesAt) =>
                            r.images[j].ImageInfo.JSONPointer =
                                LocationOf(ListNames[l], NthPosition(slice, j, ParsesAt) - 1)

\* C2: collection is best-effort: the entries returned for a list are
\* exactly its elements whose image parsed, in list order; the error is nil
\* iff no element failed and is otherwise the parse errors of the failing
\* elements, in list order, joined with ";".
C2_BestEffortCollection ==
    Extracted =>
        \A l \in DOMAIN ListNames :
            LET r == extracted[ListNames[l]]
                slice == ListOf(ListNames[l]).slice
            IN  r.resolved =>
                    /\ Len(r.images) = CountOf(slice, ParsesAt)
                    /\ \A j \in DOMAIN r.images :
                          LET e == slice[NthPosition(slice, j, ParsesAt)] IN
                          /\ r.images[j].Name = e.v["name"].v
                          /\ Fields(r.images[j].ImageInfo)
                                = Fields(newImageInfo(ImageTextOf(e), <<>>).info)
                    /\ r.err.nil <=> CountOf(slice, FailsAt) = 0
                    /\ ~r.err.nil =>
                          /\ Len(Split(r.err.msg, ";")) = CountOf(slice, FailsAt)
                          /\ \A j \in 1..CountOf(slice, FailsAt) :
                                Split(r.err.msg, ";")[j] =
                                    newImageInfo(ImageTextOf(
                                        slice[NthPosition(slice, j, FailsAt)]), <<>>).err

\* a list in which one element parsed and another one failed
C2_Witness ==
    /\ Extracted
    /\ \E l \in DOMAIN ListNames :
          /\ extracted[ListNames[l]].resolved
          /\ Len(extracted[ListNames[l]].images) >= 1
          /\ ~extracted[ListNames[l]].err.nil
          /\ ParsesAt(ListOf(ListNames[l]).slice, 2)

\* C3: a manifest of a kind that is not recognized yields no images,
\* wherever its container lists sit.
C3_UnknownKindYieldsNothing ==
    (Extracted /\ GetKind(resource) \notin RecognizedKinds) =>
        \A l \in DOMAIN ListNames : Len(extracted[ListNames[l]].images) = 0

\* the container has no image, or an empty one
EmptyImageAt(slice, k) ==
    /\ slice[k].t = "map"
    /\ "name" \in DOMAIN slice[k].v
    /\ ImageTextOf(slice[k]) = <<>>

BadEmptyImage ==
    <<"bad image: ", "docker", ".", "io", "/", ": ", "invalid reference format">>

\* C10: a container with a name and no image (or an empty one) yields no
\* entry: it adds the parse error of "docker.io/" to the aggregate error,
\* and the other elements of its list are still processed.
C10_EmptyImageIsAParseError ==
    Extracted =>
        \A l \in DOMAIN ListNames :
            LET r == extracted[ListNames[l]]
                slice == ListOf(ListNames[l]).slice
            IN  r.resolved =>
                    \A k \in DOMAIN slice :
                        EmptyImageAt(slice, k) =>
                            /\ ~r.err.nil
                            /\ Cardinality({m \in 1..k : FailsAt(slice, m)})
                                  \in DOMAIN Split(r.err.msg, ";")
                            /\ Split(r.err.msg, ";")[
                                  Cardinality({m \in 1..k : FailsAt(slice, m)})] = BadEmptyImage
                            /\ Len(r.images) =
                                  Cardinality({m \in DOMAIN slice \ {k} : ParsesAt(slice, m)})

\* a container without image followed by one that was extracted
C10_Witness ==
    /\ Extracted
    /\ \E l \in DOMAIN ListNames :
          /\ extracted[ListNames[l]].resolved
          /\ EmptyImageAt(ListOf(ListNames[l]).slice, 1)
          /\ Len(extracted[ListNames[l]].images) = 1

-----------------------------------------------------------------------------
(* Properties of the mutation *)

\* every element of the three lists is a container with a name whose
\* image parses
AllContainersParse ==
    \A l \in DOMAIN ListNames :
        LET slice == ListOf(ListNames[l]).slice IN
        \A k \in DOMAIN slice :
            slice[k].t = "map" /\ "name" \in DOMAIN slice[k].v /\ ParsesAt(slice, k)

\* C4: for a manifest of a recognized kind whose containers all have a
\* name and an image that parses, the operations cover every image field:
\* each container, also one that shares its name with another container of
\* its list, has an operation at its own location whose value is the
\* canonical string of its own image.
C4_EveryImageFieldIsPatched ==
    (pc = "mutated" /\ GetKind(resource) \in RecognizedKinds /\ AllContainersParse) =>
        \A l \in DOMAIN ListNames :
            LET slice == ListOf(ListNames[l]).slice IN
            \A k \in DOMAIN slice :
                \E j \in DOMAIN patches :
                    /\ DecodePatch(patches[j]).path = LocationOf(ListNames[l], k - 1)
                    /\ DecodePatch(patches[j]).value =
                          String(newImageInfo(ImageTextOf(slice[k]), <<>>).info)

\* the image references of the inventory: <<mapping, container name>>
References ==
    ({"InitContainers"} \X DOMAIN images.InitContainers)
    \cup ({"Containers"} \X DOMAIN images.Containers)
    \cup ({"EphemeralContainers"} \X DOMAIN images.EphemeralContainers)

ReferenceAt(ref) == images[ref[1]][ref[2]]

\* C5: the operations are one per image reference of the three mappings
\* and no other; each is a "replace" at the reference's location with the
\* reference's canonical string; no images, no operations.
C5_OneOperationPerReference ==
    pc = "mutated" =>
        /\ images.nil => patches = <<>>
        /\ ~images.nil =>
              \E f \in [DOMAIN patches -> References] :
                  /\ \A ref \in References :
                        Cardinality({j \in DOMAIN patches : f[j] = ref}) = 1
                  /\ \A j \in DOMAIN patches :
                        /\ DecodePatch(patches[j]).ok
                        /\ DecodePatch(patches[j]).op = <<"replace">>
                        /\ DecodePatch(patches[j]).path = ReferenceAt(f[j]).JSONPointer
                        /\ DecodePatch(patches[j]).value =
                              IF ReferenceAt(f[j]).Digest # <<>>
                              THEN ReferenceAt(f[j]).Registry \o <<"/">>
                                   \o ReferenceAt(f[j]).Path \o <<"@">>
                                   \o ReferenceAt(f[j]).Digest
                              ELSE ReferenceAt(f[j]).Registry \o <<"/">>
                                   \o ReferenceAt(f[j]).Path \o <<":">>
                                   \o ReferenceAt(f[j]).Tag

\* operations built for references of two mappings, one by digest
C5_Witness ==
    /\ pc = "mutated"
    /\ Len(patches) = 2
    /\ DOMAIN images.InitContainers # {}
    /\ DOMAIN images.Containers # {}
    /\ \E ref \in References : ReferenceAt(ref).Digest # <<>>

RECURSIVE ReplayTo(_, _, _)
\* the document after the first n operations, each applied where it applies
ReplayTo(doc, ps, n) ==
    IF n = 0 THEN doc
    ELSE ApplyPatch(ReplayTo(doc, ps, n - 1), ps[n]).doc

\* C6: mutation is all-or-nothing: when applying the operations fails, the
\* error is returned and the context keeps the resource it held; the
\* context's resource is replaced only when all operations applied.
C6_AllOrNothing ==
    [][ (pc = "extracted" /\ pc' = "mutated") =>
            /\ ~ApplyPatches(resource, patches').err.nil =>
                  /\ mutateErr' = ApplyPatches(resource, patches').err
                  /\ ~mutateErr'.nil
                  /\ ctxResource' = ctxResource
            /\ ctxResource' # ctxResource =>
                  /\ mutateErr'.nil
                  /\ \A j \in DOMAIN patches' :
                        ApplyPatch(ReplayTo(resource, patches', j - 1), patches'[j]).ok
                  /\ ctxResource' = ReplayTo(resource, patches', Len(patches')) ]_vars

\* an operation did not apply and the mutation returned the error
C6_Witness ==
    /\ pc = "mutated"
    /\ ~mutateErr.nil
    /\ Len(patches) >= 1
    /\ ctxResource = resource

\* the resource was replaced by the patched one
C6_WitnessReplaced ==
    /\ pc = "mutated"
    /\ mutateErr.nil
    /\ ctxResource # resource

-----------------------------------------------------------------------------
(* Properties of parsing *)

\* C7: parsing the canonical string of a parsed reference yields the same
\* registry, path, name, tag and digest.
C7_RoundTrip ==
    pc = "reparsed" =>
        /\ reparsed.ok
        /\ Fields(reparsed.info) = Fields(info.info)

\* C8: a reference that parses has a registry.
C8_RegistryNonEmpty ==
    (pc \in {"parsed", "reparsed"} /\ info.ok) => info.info.Registry # <<>>

HasSlash(s) == \E j \in DOMAIN s : s[j] = "/"

\* the text before the first "/"
LeadOf(s) ==
    [j \in 1..((CHOOSE k \in DOMAIN s : s[k] = "/" /\ \A m \in 1..(k - 1) : s[m] # "/") - 1)
        |-> s[j]]

\* the leading segment does not look like a domain
LooksLikePath(lead) ==
    /\ \A j \in DOMAIN lead : lead[j] \notin {".", ":", DigestText}
    /\ lead # <<"localhost">>
    /\ \A j \in DOMAIN lead : lead[j] \notin UpperRuns

\* C9: addDefaultDomain prefixes "docker.io/" iff the reference has no "/"
\* or its leading segment holds neither "." nor ":", is not "localhost" and
\* is all lower case; otherwise the reference is returned unchanged, so a
\* leading segment with an upper-case letter is never prefixed.
C9_DefaultDomainRule ==
    pc \in {"parsed", "reparsed"} =>
        /\ defaulted = <<"docker", ".", "io", "/">> \o image
              <=> (~HasSlash(image) \/ LooksLikePath(LeadOf(image)))
        /\ ~(~HasSlash(image) \/ LooksLikePath(LeadOf(image))) => defaulted = image
        /\ (HasSlash(image) /\ \E j \in DOMAIN LeadOf(image) : LeadOf(image)[j] = "A")
              => defaulted = image

\* a leading segment that only an upper-case letter keeps from the prefix
C9_Witness ==
    /\ pc = "parsed"
    /\ HasSlash(image)
    /\ \E j \in DOMAIN LeadOf(image) : LeadOf(image)[j] = "A"
    /\ \A j \in DOMAIN LeadOf(image) : LeadOf(image)[j] \notin {".", ":"}
    /\ defaulted = image

====
